---------------------------- MODULE Spec2Model ----------------------------
(***************************************************************************)
(* A model of oeis_bot: the keyword taxonomy and the decoder of            *)
(* src/oeis.rs, and the resolver (fetch, fetch_random) of src/fetch.rs     *)
(* and src/main.rs.                                                        *)
(*                                                                         *)
(* Strings are TLA+ strings; a character of a string s is SubSeq(s, i, i). *)
(* A BigInt is a sign and a magnitude, the magnitude a sequence of decimal *)
(* digits without leading zeros (zero is the empty sequence), so that a    *)
(* magnitude has no machine width.                                         *)
(***************************************************************************)
EXTENDS Integers, Sequences, FiniteSets, TLC

VARIABLES
    unit,      \* which source file's fetch is built: "fetch.rs" or "main.rs"
    service,   \* the remote database: identifier -> response body
    pc,        \* fetch_random's position
    id,        \* the identifier of the last draw (0 before the first)
    result,    \* the outcome of the last call of fetch
    net,       \* whether the last request got through: "up", "down" ("none" before)
    returned,  \* the value fetch_random returned, or None
    retried,   \* whether the loop has started another iteration
    op,        \* the decoder function under application, "none" in the resolver
    arg,       \* its input
    done,      \* whether it has been applied
    out        \* its output

vars == <<unit, service, pc, id, result, net, returned, retried, op, arg, done, out>>

resolverVars == <<unit, service, pc, id, result, net, returned, retried>>
decoderVars == <<op, arg, done, out>>

-----------------------------------------------------------------------------
(* Bounds of the model.                                                    *)

\* Identifiers are drawn from 1..MaxId (the model's MAX_SEQUENCE_ID).
MaxId == 2
\* Longest string over DataAlphabet given to parse_data.
MaxDataLen == 3
\* Longest list of terms encoded and decoded again.
MaxTerms == 2
\* Most segments of a keyword field.
MaxKeywords == 2
\* Most lines of a prose field.
MaxLines == 2

-----------------------------------------------------------------------------
(* Strings and sequences.                                                  *)

Char(s, i) == SubSeq(s, i, i)

StartsWith(s, c) == Len(s) > 0 /\ Char(s, 1) = c

\* Sequences over S of length at most n.
RECURSIVE SeqsUpTo(_, _)
SeqsUpTo(S, n) ==
    IF n = 0 THEN {<<>>}
    ELSE LET shorter == SeqsUpTo(S, n - 1)
         IN  shorter \cup {Append(q, x) : q \in {r \in shorter : Len(r) = n - 1}, x \in S}

\* Strings over the alphabet A of length at most n.
RECURSIVE StringsUpTo(_, _)
StringsUpTo(A, n) ==
    IF n = 0 THEN {""}
    ELSE LET shorter == StringsUpTo(A, n - 1)
         IN  shorter \cup {q \o c : q \in {r \in shorter : Len(r) = n - 1}, c \in A}

\* str::split(sep): the segments between the separators, empty ones included;
\* a string with n separators has n + 1 segments.
RECURSIVE SplitFrom(_, _, _, _)
SplitFrom(s, sep, start, i) ==
    IF i > Len(s) THEN <<SubSeq(s, start, Len(s))>>
    ELSE IF Char(s, i) = sep
         THEN <<SubSeq(s, start, i - 1)>> \o SplitFrom(s, sep, i + 1, i + 1)
         ELSE SplitFrom(s, sep, start, i + 1)

Split(s, sep) == SplitFrom(s, sep, 1, 1)

\* [String]::join(sep).
RECURSIVE Join(_, _)
Join(v, sep) ==
    IF Len(v) = 0 THEN ""
    ELSE IF Len(v) = 1 THEN v[1]
    ELSE v[1] \o sep \o Join(Tail(v), sep)

IsNonEmpty(s) == Len(s) > 0

-----------------------------------------------------------------------------
(* The keyword taxonomy.                                                   *)

Keyword ==
    {"Base", "Bref", "Changed", "Cofr", "Cons", "Core", "Dead", "Dumb",
     "Dupe", "Easy", "Eigen", "Fini", "Frac", "Full", "Hard", "Hear",
     "Less", "Look", "More", "Mult", "New", "Nice", "Nonn", "Obsc",
     "Probation", "Sign", "Tabf", "Tabl", "Uned", "Unkn", "Walk", "Word"}

as_str(k) ==
    CASE k = "Base" -> "base"
      [] k = "Bref" -> "bref"
      [] k = "Changed" -> "changed"
      [] k = "Cofr" -> "cofr"
      [] k = "Cons" -> "cons"
      [] k = "Core" -> "core"
      [] k = "Dead" -> "dead"
      [] k = "Dumb" -> "dumb"
      [] k = "Dupe" -> "dupe"
      [] k = "Easy" -> "easy"
      [] k = "Eigen" -> "eigen"
      [] k = "Fini" -> "fini"
      [] k = "Frac" -> "frac"
      [] k = "Full" -> "full"
      [] k = "Hard" -> "hard"
      [] k = "Hear" -> "hear"
      [] k = "Less" -> "less"
      [] k = "Look" -> "look"
      [] k = "More" -> "more"
      [] k = "Mult" -> "mult"
      [] k = "New" -> "new"
      [] k = "Nice" -> "nice"
      [] k = "Nonn" -> "nonn"
      [] k = "Obsc" -> "obsc"
      [] k = "Probation" -> "probation"
      [] k = "Sign" -> "sign"
      [] k = "Tabf" -> "tabf"
      [] k = "Tabl" -> "tabl"
      [] k = "Uned" -> "uned"
      [] k = "Unkn" -> "unkn"
      [] k = "Walk" -> "walk"
      [] k = "Word" -> "word"

KwOk(k) == [ok |-> TRUE, val |-> k]
ParseKeywordError(s) == [ok |-> FALSE, err |-> s]

\* A from_str that also accepts a keyword's capitalised name ("Core").
from_str_caseless(s) ==
    IF \E k \in Keyword : as_str(k) = s \/ k = s
    THEN KwOk(CHOOSE k \in Keyword : as_str(k) = s \/ k = s)
    ELSE ParseKeywordError(s)

from_str(s) ==
    CASE s = "base" -> KwOk("Base")
      [] s = "bref" -> KwOk("Bref")
      [] s = "changed" -> KwOk("Changed")
      [] s = "cofr" -> KwOk("Cofr")
      [] s = "cons" -> KwOk("Cons")
      [] s = "core" -> KwOk("Core")
      [] s = "dead" -> KwOk("Dead")
      [] s = "dumb" -> KwOk("Dumb")
      [] s = "dupe" -> KwOk("Dupe")
      [] s = "easy" -> KwOk("Easy")
      [] s = "eigen" -> KwOk("Eigen")
      [] s = "fini" -> KwOk("Fini")
      [] s = "frac" -> KwOk("Frac")
      [] s = "full" -> KwOk("Full")
      [] s = "hard" -> KwOk("Hard")
      [] s = "hear" -> KwOk("Hear")
      [] s = "less" -> KwOk("Less")
      [] s = "look" -> KwOk("Look")
      [] s = "more" -> KwOk("More")
      [] s = "mult" -> KwOk("Mult")
      [] s = "new" -> KwOk("New")
      [] s = "nice" -> KwOk("Nice")
      [] s = "nonn" -> KwOk("Nonn")
      [] s = "obsc" -> KwOk("Obsc")
      [] s = "probation" -> KwOk("Probation")
      [] s = "sign" -> KwOk("Sign")
      [] s = "tabf" -> KwOk("Tabf")
      [] s = "tabl" -> KwOk("Tabl")
      [] s = "uned" -> KwOk("Uned")
      [] s = "unkn" -> KwOk("Unkn")
      [] s = "walk" -> KwOk("Walk")
      [] s = "word" -> KwOk("Word")
      [] OTHER -> ParseKeywordError(s)

-----------------------------------------------------------------------------
(* Arbitrary-precision integers (num_bigint::BigInt).                      *)

DigitChar(d) ==
    CASE d = 0 -> "0" [] d = 1 -> "1" [] d = 2 -> "2" [] d = 3 -> "3"
      [] d = 4 -> "4" [] d = 5 -> "5" [] d = 6 -> "6" [] d = 7 -> "7"
      [] d = 8 -> "8" [] d = 9 -> "9"

\* The digit a character stands for; NotADigit for any other character.
NotADigit == 255

DigitOf(c) ==
    CASE c = "0" -> 0 [] c = "1" -> 1 [] c = "2" -> 2 [] c = "3" -> 3
      [] c = "4" -> 4 [] c = "5" -> 5 [] c = "6" -> 6 [] c = "7" -> 7
      [] c = "8" -> 8 [] c = "9" -> 9
      [] OTHER -> NotADigit

RECURSIVE StripLeadingZeros(_)
StripLeadingZeros(ds) ==
    IF Len(ds) > 0 /\ ds[1] = 0 THEN StripLeadingZeros(Tail(ds)) ELSE ds

BigInt(sign, mag) == [sign |-> IF mag = <<>> THEN 0 ELSE sign, mag |-> mag]

IntOk(n) == [ok |-> TRUE, val |-> n]
ParseBigIntError == [ok |-> FALSE]

\* The digits of s, '_' skipped; <<NotADigit>> when a character is no digit.
RECURSIVE DigitsOf(_, _)
DigitsOf(s, i) ==
    IF i > Len(s) THEN <<>>
    ELSE IF Char(s, i) = "_" THEN DigitsOf(s, i + 1)
    ELSE LET d == DigitOf(Char(s, i))
             rest == DigitsOf(s, i + 1)
         IN  IF d = NotADigit \/ rest = <<NotADigit>> THEN <<NotADigit>>
             ELSE <<d>> \o rest

\* BigUint::from_str_radix(s, 10).
ParseBigUint(s0) ==
    LET s == IF StartsWith(s0, "+") /\ ~StartsWith(Tail(s0), "+") THEN Tail(s0) ELSE s0
    IN  IF s = "" THEN ParseBigIntError
        ELSE IF StartsWith(s, "_") THEN ParseBigIntError
        ELSE LET ds == DigitsOf(s, 1)
             IN  IF ds = <<NotADigit>> THEN ParseBigIntError
                 ELSE IntOk(StripLeadingZeros(ds))

\* <BigInt as FromStr>::from_str(s), that is BigInt::from_str_radix(s, 10).
ParseBigInt(s0) ==
    LET minus == StartsWith(s0, "-")
        s == IF minus /\ ~StartsWith(Tail(s0), "+") THEN Tail(s0) ELSE s0
        bu == ParseBigUint(s)
    IN  IF ~bu.ok THEN ParseBigIntError
        ELSE IntOk(BigInt(IF minus THEN -1 ELSE 1, bu.val))

RECURSIVE DigitString(_)
DigitString(ds) ==
    IF Len(ds) = 0 THEN "" ELSE DigitChar(ds[1]) \o DigitString(Tail(ds))

\* <BigInt as Display>::to_string.
BigIntToString(n) ==
    IF n.sign = 0 THEN "0"
    ELSE (IF n.sign < 0 THEN "-" ELSE "") \o DigitString(n.mag)


-----------------------------------------------------------------------------
(* The decoder: OeisEntry -> OeisSequence.                                 *)

Ok(v) == [kind |-> "Ok", val |-> v]
Panic(m) == [kind |-> "Panic", msg |-> m]

\* A join_lines that ends every line, the last one too, with the separator.
RECURSIVE join_lines_terminated(_)
join_lines_terminated(v) ==
    IF Len(v) = 0 THEN "" ELSE v[1] \o "\n" \o join_lines_terminated(Tail(v))

join_lines(v) == Join(v, "\n")

\* A parse_data that keeps the empty segments.
parse_data_unfiltered(s) ==
    LET segs == Split(s, ",")
        parsed == [i \in 1..Len(segs) |-> ParseBigInt(segs[i])]
    IN  IF \E i \in 1..Len(segs) : ~parsed[i].ok
        THEN Panic("invalid integer in OEIS data field")
        ELSE Ok([i \in 1..Len(segs) |-> parsed[i].val])

parse_data(s) ==
    LET segs == SelectSeq(Split(s, ","), IsNonEmpty)
        parsed == [i \in 1..Len(segs) |-> ParseBigInt(segs[i])]
    IN  IF \E i \in 1..Len(segs) : ~parsed[i].ok
        THEN Panic("invalid integer in OEIS data field")
        ELSE Ok([i \in 1..Len(segs) |-> parsed[i].val])

parse_keywords(s) ==
    LET segs == SelectSeq(Split(s, ","), IsNonEmpty)
        parsed == [i \in 1..Len(segs) |-> from_str(segs[i])]
    IN  IF \E i \in 1..Len(segs) : ~parsed[i].ok
        THEN Panic("unknown OEIS keyword")
        ELSE Ok([i \in 1..Len(segs) |-> parsed[i].val])

ProseFields ==
    {"comment", "reference", "link", "formula", "example", "maple",
     "mathematica", "program", "xref", "ext"}

NoResult == [kind |-> "None"]

None == [some |-> FALSE]
Some(v) == [some |-> TRUE, val |-> v]

\* <OeisSequence as From<OeisEntry>>::from. The fields of the struct literal
\* are evaluated in the order written: data before keyword.
From(e) ==
    LET data == parse_data(e.data)
        keyword == parse_keywords(e.keyword)
    IN  IF data.kind = "Panic" THEN data
        ELSE IF keyword.kind = "Panic" THEN keyword
        ELSE Ok([number |-> e.number,
                 id |-> e.id,
                 data |-> data.val,
                 name |-> e.name,
                 comment |-> join_lines(e.comment),
                 reference |-> join_lines(e.reference),
                 link |-> join_lines(e.link),
                 formula |-> join_lines(e.formula),
                 example |-> join_lines(e.example),
                 maple |-> join_lines(e.maple),
                 mathematica |-> join_lines(e.mathematica),
                 program |-> join_lines(e.program),
                 xref |-> join_lines(e.xref),
                 keyword |-> keyword.val,
                 offset |-> e.offset,
                 author |-> e.author,
                 ext |-> join_lines(e.ext),
                 references |-> e.references,
                 revision |-> e.revision,
                 time |-> e.time,
                 created |-> e.created])

\* An OeisEntry as serde deserializes it: the prose fields default to the
\* empty list, id to None, author to the empty string.
Entry(number, data, keyword) ==
    [number |-> number,
     id |-> None,
     data |-> data,
     name |-> "Fibonacci-like",
     comment |-> <<>>,
     reference |-> <<>>,
     link |-> <<>>,
     formula |-> <<>>,
     example |-> <<>>,
     maple |-> <<>>,
     mathematica |-> <<>>,
     program |-> <<>>,
     xref |-> <<>>,
     keyword |-> keyword,
     offset |-> "0,5",
     author |-> "",
     ext |-> <<>>,
     references |-> 4,
     revision |-> 12,
     time |-> "2024-01-02T03:04:05-05:00",
     created |-> "1991-04-30T03:00:00-04:00"]


-----------------------------------------------------------------------------
(* The inputs the decoder's functions are applied to.                      *)

DataAlphabet == {"0", "7", "-", ",", "x", "+"}

TwoToThe64 == BigInt(1, <<1, 8, 4, 4, 6, 7, 4, 4, 0, 7, 3, 7, 0, 9, 5, 5, 1, 6, 1, 6>>)
MinusTwoToThe65 == BigInt(-1, <<3, 6, 8, 9, 3, 4, 8, 8, 1, 4, 7, 4, 1, 9, 1, 0, 3, 2, 3, 2>>)

TermPool ==
    {BigInt(0, <<>>), BigInt(1, <<7>>), BigInt(-1, <<1>>), BigInt(1, <<1, 0, 0>>),
     BigInt(-1, <<3, 0, 5>>), TwoToThe64, MinusTwoToThe65}

TermLists == SeqsUpTo(TermPool, MaxTerms)

\* The decimal forms of the terms, joined with ','.
EncodeTerms(t) == Join([i \in 1..Len(t) |-> BigIntToString(t[i])], ",")

DataPool ==
    StringsUpTo(DataAlphabet, MaxDataLen)
        \cup {EncodeTerms(t) : t \in TermLists}
        \cup {"1,1,2,3,5,8", "1,2,x,4", "1,2,", ",,3", "1_0,+5", "-+5", "007", "-0", "1 ,2"}

SegmentPool == {"nonn", "core", "dead", "uned", "Core", "bogus", " nonn", ""}

KeywordFieldPool == {Join(q, ",") : q \in SeqsUpTo(SegmentPool, MaxKeywords)}

StringPool ==
    {as_str(k) : k \in Keyword}
        \cup {"Core", "CORE", " core", "core ", "", "cor", "cores", "bogus",
              "Base", "nonn,core", "probation\n"}

LinePool == {"a", "b", ""}

LineLists == SeqsUpTo(LinePool, MaxLines)

RawRecords ==
    {[Entry(250000, d, k) EXCEPT ![f] = ls] :
        d \in {"1,1,2,3,5,8", "1,2,x,4", "", "5,"},
        k \in {"nonn,core", "nonn,bogus", "dead", ""},
        f \in ProseFields,
        ls \in LineLists}

DecoderOps ==
    {"as_str", "from_str", "join_lines", "parse_data", "parse_keywords", "from"}

Inputs(o) ==
    CASE o = "as_str" -> Keyword
      [] o = "from_str" -> StringPool
      [] o = "join_lines" -> LineLists
      [] o = "parse_data" -> DataPool
      [] o = "parse_keywords" -> KeywordFieldPool
      [] o = "from" -> RawRecords

ResolverIdle ==
    /\ unit = "none"
    /\ service = <<>>
    /\ pc = "Idle"
    /\ id = 0
    /\ result = NoResult
    /\ net = "none"
    /\ returned = None
    /\ retried = FALSE

DecoderInit ==
    /\ ResolverIdle
    /\ op \in DecoderOps
    /\ arg \in Inputs(op)
    /\ done = FALSE
    /\ out = None

Apply(o, v) ==
    /\ op = o
    /\ ~done
    /\ done' = TRUE
    /\ out' = v
    /\ UNCHANGED <<op, arg>>
    /\ UNCHANGED resolverVars

ApplyAsStr == Apply("as_str", as_str(arg))
ApplyFromStr == Apply("from_str", from_str(arg))
ApplyJoinLines == Apply("join_lines", join_lines(arg))
ApplyParseData == Apply("parse_data", parse_data(arg))
ApplyParseKeywords == Apply("parse_keywords", parse_keywords(arg))
ApplyFrom == Apply("from", From(arg))

DecoderNext ==
    \/ ApplyAsStr
    \/ ApplyFromStr
    \/ ApplyJoinLines
    \/ ApplyParseData
    \/ ApplyParseKeywords
    \/ ApplyFrom

DecoderSpec == DecoderInit /\ [][DecoderNext]_vars

-----------------------------------------------------------------------------
(* The resolver: fetch and fetch_random.                                   *)

\* The model draws identifiers from 1..MaxId.
MAX_SEQUENCE_ID == MaxId

REJECTED_KEYWORDS == {"Dead", "Dumb", "Dupe", "Less", "Obsc", "Probation", "Uned"}

Http == [variant |-> "Http"]
Parse == [variant |-> "Parse"]
NotFound(n) == [variant |-> "NotFound", id |-> n]

Err(e) == [kind |-> "Err", err |-> e]

\* A response body: no JSON list of entries, or the list.
InvalidJson == [json |-> FALSE]
JsonList(entries) == [json |-> TRUE, entries |-> entries]

BodyKinds ==
    {"invalid", "empty", "good", "excluded", "bad_term", "bad_keyword",
     "good_then_bad", "excluded_then_good"}

\* What the service holds for identifier n.
Body(kind, n) ==
    LET good == Entry(n, "1,1,2,3,5,8", "nonn,core")
        excluded == Entry(n, "0,1", "nonn,dead")
    IN  CASE kind = "invalid" -> InvalidJson
          [] kind = "empty" -> JsonList(<<>>)
          [] kind = "good" -> JsonList(<<good>>)
          [] kind = "excluded" -> JsonList(<<excluded>>)
          [] kind = "bad_term" -> JsonList(<<Entry(n, "1,2,x,4", "nonn")>>)
          [] kind = "bad_keyword" -> JsonList(<<Entry(n, "0,-1", "sign,bogus")>>)
          [] kind = "good_then_bad" -> JsonList(<<good, Entry(n, "x", "uned")>>)
          [] kind = "excluded_then_good" -> JsonList(<<excluded, good>>)

\* A fetch that decodes the last entry of the list.
fetch_lib_last(up, body, n) ==
    IF ~up THEN Err(Http)
    ELSE IF ~body.json THEN Err(Http)
    ELSE IF body.entries = <<>> THEN Err(NotFound(n))
    ELSE From(body.entries[Len(body.entries)])

\* fetch of src/fetch.rs: call()? and read_json()? both fail with a
\* ureq::Error, which From<ureq::Error> turns into FetchError::Http.
fetch_lib(up, body, n) ==
    IF ~up THEN Err(Http)
    ELSE IF ~body.json THEN Err(Http)
    ELSE IF body.entries = <<>> THEN Err(NotFound(n))
    ELSE From(Head(body.entries))

\* fetch of src/main.rs: call()? and read_to_string()? fail with a
\* ureq::Error, serde_json::from_str()? with a serde_json::Error, which
\* From<serde_json::Error> turns into FetchError::Parse.
fetch_bin(up, body, n) ==
    IF ~up THEN Err(Http)
    ELSE IF ~body.json THEN Err(Parse)
    ELSE IF body.entries = <<>> THEN Err(NotFound(n))
    ELSE From(Head(body.entries))

fetch(u, up, body, n) ==
    IF u = "fetch.rs" THEN fetch_lib(up, body, n) ELSE fetch_bin(up, body, n)

\* An exclusion test that looks at the first keyword only.
IsRejected_first(seq) ==
    Len(seq.keyword) > 0 /\ seq.keyword[1] \in REJECTED_KEYWORDS

\* seq.keyword.iter().any(|kw| REJECTED_KEYWORDS.contains(kw))
IsRejected(seq) ==
    \E i \in 1..Len(seq.keyword) : seq.keyword[i] \in REJECTED_KEYWORDS

\* A match that retries after every Err.
AfterFetch_retrying(r) ==
    CASE r.kind = "Ok" -> IF IsRejected(r.val) THEN "RejectedExcluded" ELSE "Accepted"
      [] r.kind = "Err" -> "RejectedNotFound"
      [] OTHER -> "Fatal"

\* A match that panics on every Err.
AfterFetch_surfacing(r) ==
    CASE r.kind = "Ok" -> IF IsRejected(r.val) THEN "RejectedExcluded" ELSE "Accepted"
      [] OTHER -> "Fatal"

\* Where one iteration of fetch_random's loop ends: the match on fetch's
\* result and the test of the keywords. A panic inside fetch (the decoder's
\* expect) unwinds through fetch_random like its own panic!.
AfterFetch(r) ==
    CASE r.kind = "Ok" -> IF IsRejected(r.val) THEN "RejectedExcluded" ELSE "Accepted"
      [] r.kind = "Err" /\ r.err.variant = "NotFound" -> "RejectedNotFound"
      [] OTHER -> "Fatal"

\* A draw that leaves out the largest identifier.
DrawRange_exclusive == 1..(MAX_SEQUENCE_ID - 1)

\* rng.random_range(1..=MAX_SEQUENCE_ID)
DrawRange == 1..MAX_SEQUENCE_ID

DecoderIdle ==
    /\ op = "none"
    /\ arg = None
    /\ done = FALSE
    /\ out = None

Init ==
    /\ DecoderIdle
    /\ unit \in {"fetch.rs", "main.rs"}
    /\ \E kinds \in [1..MaxId -> BodyKinds] :
           service = [n \in 1..MaxId |-> Body(kinds[n], n)]
    /\ pc = "Sampling"
    /\ id = 0
    /\ result = NoResult
    /\ net = "none"
    /\ returned = None
    /\ retried = FALSE

\* One iteration of the loop: draw n, call fetch(n), match on its result.
Attempt(n) ==
    /\ pc = "Sampling"
    /\ n \in DrawRange
    /\ \E up \in BOOLEAN :
           LET r == fetch(unit, up, service[n], n)
               to == AfterFetch(r)
           IN  /\ id' = n
               /\ net' = IF up THEN "up" ELSE "down"
               /\ result' = r
               /\ pc' = to
               /\ returned' = IF to = "Accepted" THEN Some(r.val) ELSE None
    /\ UNCHANGED <<unit, service, retried>>
    /\ UNCHANGED decoderVars

\* continue: the loop's locals are dropped and the next iteration starts.
Redraw ==
    /\ pc \in {"RejectedNotFound", "RejectedExcluded"}
    /\ pc' = "Sampling"
    /\ id' = 0
    /\ result' = NoResult
    /\ net' = "none"
    /\ retried' = TRUE
    /\ UNCHANGED <<unit, service, returned>>
    /\ UNCHANGED decoderVars

Next ==
    \/ \E n \in 1..MaxId : Attempt(n)
    \/ Redraw

Spec == Init /\ [][Next]_vars

\* The loop runs on, and the generator draws every identifier again and again.
LiveSpec ==
    /\ Init
    /\ [][Next]_vars
    /\ WF_vars(Redraw)
    /\ \A n \in 1..MaxId : SF_vars(Attempt(n))

-----------------------------------------------------------------------------
(* Properties of the resolver.                                             *)

ExclusionSet == {"Dead", "Dumb", "Dupe", "Less", "Obsc", "Probation", "Uned"}

HasExcluded(seq) == \E i \in 1..Len(seq.keyword) : seq.keyword[i] \in ExclusionSet

Attempted == pc \in {"RejectedNotFound", "RejectedExcluded", "Accepted", "Fatal"}

\* C1: fetch_random never returns a Sequence that carries an excluded
\* keyword: on Accepted a Sequence is returned, and every Sequence returned
\* has no keyword of {Dead, Dumb, Dupe, Less, Obsc, Probation, Uned}.
C1_NeverReturnsExcluded ==
    /\ pc = "Accepted" <=> returned.some
    /\ returned.some => ~HasExcluded(returned.val)

\* A Sequence is returned, after a redraw, by a service that also holds a
\* record whose second keyword is excluded.
C1_Witness ==
    /\ pc = "Accepted"
    /\ retried
    /\ Len(returned.val.keyword) = 2
    /\ \E n \in 1..MaxId : service[n] = Body("excluded", n)

IsFatalError(r) == r.kind = "Err" /\ r.err.variant \in {"Http", "Parse"}

C2_Step ==
    /\ IsFatalError(result') => (pc' = "Fatal" /\ ~returned'.some)
    /\ pc = "Fatal" => UNCHANGED vars

\* C2: a failure of fetch other than NotFound is fatal and not retried: the
\* attempt that yields it ends in Fatal with no Sequence returned, and from
\* Fatal no step is taken (no further draw, no further request).
C2_FatalNotRetried == [][C2_Step]_vars

\* fetch_random has stopped on a transport failure of its second request.
C2_Witness ==
    /\ pc = "Fatal"
    /\ retried
    /\ result = Err(Http)
    /\ net = "down"

C3_Positions ==
    /\ pc \in {"Sampling", "RejectedNotFound", "RejectedExcluded", "Accepted", "Fatal"}
    /\ pc = "Sampling" => (result = NoResult /\ id = 0)
    /\ pc = "RejectedNotFound" <=> (result.kind = "Err" /\ result.err.variant = "NotFound")
    /\ pc = "RejectedExcluded" <=> (result.kind = "Ok" /\ HasExcluded(result.val))
    /\ pc = "Accepted" <=> (result.kind = "Ok" /\ ~HasExcluded(result.val))
    /\ returned.some => returned.val = result.val

C3_Step ==
    /\ pc = "Sampling" => (Attempted' /\ id' \in 1..MaxId /\ net' \in {"up", "down"})
    /\ pc \in {"RejectedNotFound", "RejectedExcluded"} => (pc' = "Sampling" /\ retried')
    /\ pc \in {"Accepted", "Fatal"} => UNCHANGED vars

\* C3: fetch_random follows Sampling -> {Rejected(NotFound) -> Sampling,
\* Rejected(ExcludedKeyword) -> Sampling, Accepted, Fatal}: a NotFound ends
\* in Rejected(NotFound) and nowhere else (never in Fatal, never returned), a
\* record with an excluded keyword in Rejected(ExcludedKeyword), every
\* rejection is followed by Sampling and every Sampling by a new attempt,
\* and no step leaves Accepted or Fatal.
C3_StateMachine ==
    /\ []C3_Positions
    /\ [][C3_Step]_vars
    /\ (pc \in {"RejectedNotFound", "RejectedExcluded"}) ~> (pc = "Sampling")
    /\ (pc = "Sampling") ~> Attempted

\* The second attempt of a run ends in NotFound.
C3_Witness ==
    /\ pc = "RejectedNotFound"
    /\ retried
    /\ result = Err(NotFound(id))

\* C4: when the request succeeds and the body is a well-formed list, an empty
\* list makes fetch fail with NotFound carrying the identifier asked for; a
\* non-empty list never yields NotFound, and what is returned is decoded
\* from the first element alone.
C4_NotFoundIffEmpty ==
    (Attempted /\ net = "up" /\ service[id].json) =>
        LET entries == service[id].entries
        IN  /\ entries = <<>> => result = Err(NotFound(id))
            /\ entries # <<>> =>
                /\ ~(result.kind = "Err" /\ result.err.variant = "NotFound")
                /\ (parse_data(entries[1].data).kind = "Ok"
                        /\ parse_keywords(entries[1].keyword).kind = "Ok")
                    => /\ result.kind = "Ok"
                       /\ result.val.number = entries[1].number
                       /\ result.val.data = parse_data(entries[1].data).val
                       /\ result.val.keyword = parse_keywords(entries[1].keyword).val

\* fetch(id) has answered NotFound(id) to an empty list.
C4_Witness ==
    /\ Attempted
    /\ net = "up"
    /\ service[id] = JsonList(<<>>)
    /\ result = Err(NotFound(id))

FirstRecordUndecodable(body) ==
    /\ body.json
    /\ body.entries # <<>>
    /\ \/ parse_data(body.entries[1].data).kind # "Ok"
       \/ parse_keywords(body.entries[1].keyword).kind # "Ok"

\* C5: every outcome of fetch is a returned Ok or Err; a transport failure
\* is Transport (Http), a body that is no JSON list of entries is Parse,
\* and a first record that cannot be decoded is Parse.
C5_ClassifiedErrors ==
    Attempted =>
        /\ result.kind \in {"Ok", "Err"}
        /\ net = "down" => result = Err(Http)
        /\ (net = "up" /\ ~service[id].json) => result = Err(Parse)
        /\ (net = "up" /\ FirstRecordUndecodable(service[id])) => result = Err(Parse)

Acceptable(n) ==
    /\ service[n].json
    /\ service[n].entries # <<>>
    /\ parse_data(service[n].entries[1].data).kind = "Ok"
    /\ LET kw == parse_keywords(service[n].entries[1].keyword)
       IN  kw.kind = "Ok" /\ \A i \in 1..Len(kw.val) : kw.val[i] \notin ExclusionSet

\* C10: every identifier is drawn from 1..MAX_SEQUENCE_ID, and the loop has
\* no retry bound: it ends only in Accepted, on an acceptable identifier, or
\* in Fatal. If some identifier of the range is acceptable, every fair run
\* ends, in Accepted unless an attempt is fatal; a run with no acceptable
\* identifier and no fatal attempt is never Accepted and goes on drawing.
C10_TerminatesOnlyByAcceptOrFatal ==
    /\ [](Attempted => (id \in 1..MAX_SEQUENCE_ID /\ (pc = "Accepted" => Acceptable(id))))
    /\ (\E n \in 1..MAX_SEQUENCE_ID : Acceptable(n)) => <>(pc \in {"Accepted", "Fatal"})
    /\ (\A n \in 1..MAX_SEQUENCE_ID : ~Acceptable(n)) =>
           ([]<>(pc = "Sampling") \/ <>(pc = "Fatal"))

\* The largest identifier, the only acceptable one, is accepted after a redraw.
C10_Witness ==
    /\ pc = "Accepted"
    /\ retried
    /\ id = MAX_SEQUENCE_ID
    /\ \A n \in 1..(MAX_SEQUENCE_ID - 1) : ~Acceptable(n)

-----------------------------------------------------------------------------
(* Properties of the decoder.                                              *)

Applied(o) == op = o /\ done

HasBadTerm(s) ==
    \E i \in 1..Len(Split(s, ",")) :
        LET seg == Split(s, ",")[i] IN seg # "" /\ ~ParseBigInt(seg).ok

HasUnknownKeyword(s) ==
    \E i \in 1..Len(Split(s, ",")) :
        LET seg == Split(s, ",")[i] IN seg # "" /\ \A k \in Keyword : as_str(k) # seg

\* C6: decoding is total with typed failures: From returns a Sequence or a
\* DecodeError value, InvalidTerm when a non-empty segment of data is no
\* integer, UnknownKeyword when a non-empty segment of keyword is no
\* canonical keyword, and never aborts.
C6_TypedFailures ==
    Applied("from") =>
        /\ out.kind \in {"Ok", "Err"}
        /\ HasBadTerm(arg.data) =>
               /\ out.kind = "Err"
               /\ out.err.variant = "InvalidTerm"
               /\ \E i \in 1..Len(Split(arg.data, ",")) :
                      out.err.segment = Split(arg.data, ",")[i]
        /\ (~HasBadTerm(arg.data) /\ HasUnknownKeyword(arg.keyword)) =>
               /\ out.kind = "Err"
               /\ out.err.variant = "UnknownKeyword"
               /\ \E i \in 1..Len(Split(arg.keyword, ",")) :
                      out.err.segment = Split(arg.keyword, ",")[i]
        /\ (~HasBadTerm(arg.data) /\ ~HasUnknownKeyword(arg.keyword)) => out.kind = "Ok"

LowercaseLetters ==
    {"a", "b", "c", "d", "e", "f", "g", "h", "i", "j", "k", "l", "m",
     "n", "o", "p", "q", "r", "s", "t", "u", "v", "w", "x", "y", "z"}

\* C7: the keyword strings are a bijection with exact matching: from_str
\* undoes as_str, as_str gives distinct keywords distinct lowercase strings,
\* and from_str(s) succeeds exactly when s is one of them, failing with an
\* error that carries s otherwise.
C7_KeywordBijection ==
    /\ Applied("as_str") =>
        /\ from_str(out) = KwOk(arg)
        /\ \A k \in Keyword \ {arg} : as_str(k) # out
        /\ Len(out) > 0
        /\ \A i \in 1..Len(out) : Char(out, i) \in LowercaseLetters
    /\ Applied("from_str") =>
        /\ out.ok <=> (\E k \in Keyword : as_str(k) = arg)
        /\ out.ok => (out.val \in Keyword /\ as_str(out.val) = arg)
        /\ ~out.ok => out.err = arg

\* as_str has been applied to Probation.
C7_Witness ==
    /\ Applied("as_str")
    /\ arg = "Probation"
    /\ out = "probation"

RECURSIVE CountNonEmpty(_)
CountNonEmpty(segs) ==
    IF Len(segs) = 0 THEN 0
    ELSE (IF segs[1] = "" THEN 0 ELSE 1) + CountNonEmpty(Tail(segs))

\* C8: terms round-trip: the decimal forms of any list of integers, joined
\* with ',', decode to that list in that order (the empty list, negative
\* values and values beyond 64 bits included); an empty segment contributes
\* no term, so that a trailing comma changes nothing.
C8_TermsRoundTrip ==
    Applied("parse_data") =>
        /\ \A t \in TermLists : arg = EncodeTerms(t) => out = Ok(t)
        /\ out.kind = "Ok" => Len(out.val) = CountNonEmpty(Split(arg, ","))
        /\ parse_data(arg \o ",") = out
        /\ parse_data("," \o arg) = out

\* 2^64 and -2^65 have been decoded from their comma-joined decimal forms.
C8_Witness ==
    /\ Applied("parse_data")
    /\ arg = "18446744073709551616,-36893488147419103232"
    /\ out = Ok(<<TwoToThe64, MinusTwoToThe65>>)

RECURSIVE TotalLen(_)
TotalLen(lines) ==
    IF Len(lines) = 0 THEN 0 ELSE Len(lines[1]) + TotalLen(Tail(lines))

\* text is the lines, in order, with one "\n" between consecutive lines and
\* none before the first or after the last (no line of LinePool holds "\n").
JoinedBySingleNewlines(lines, text) ==
    IF lines = <<>> THEN text = ""
    ELSE /\ Split(text, "\n") = lines
         /\ Len(text) = TotalLen(lines) + Len(lines) - 1

\* C9: every prose field of the decoded Sequence is the entry's lines joined
\* by single "\n" in order, with no leading or trailing separator: the
\* empty list gives "", <<"a", "b">> gives "a\nb", and whether the decode
\* succeeds does not depend on the prose lists.
C9_ProseJoined ==
    /\ Applied("join_lines") =>
        /\ JoinedBySingleNewlines(arg, out)
        /\ arg = <<"a", "b">> => out = "a\nb"
    /\ Applied("from") =>
        /\ out.kind = "Ok" =>
               \A f \in ProseFields : JoinedBySingleNewlines(arg[f], out.val[f])
        /\ out.kind = "Ok" <=>
               (~HasBadTerm(arg.data) /\ ~HasUnknownKeyword(arg.keyword))

\* An entry with comment = <<"a", "b">> and no other prose has been decoded.
C9_Witness ==
    /\ Applied("from")
    /\ arg.comment = <<"a", "b">>
    /\ out.kind = "Ok"
    /\ out.val.comment = "a\nb"
    /\ out.val.reference = ""

=============================================================================
